---- MODULE Spec2Model ----
(***************************************************************************)
(* The buildbot worker pipeline of buildbot/worker.py: four WorkThreads,   *)
(* one per stage function, each repeatedly opening a work() lease on a job *)
(* of the job store and running the stage body inside it.                  *)
(*                                                                         *)
(* The job store (db.acquire, db.set_state, db.job_dir, log, chdir) lives  *)
(* in buildbot/db.py; it is modelled from its documented contract.         *)
(***************************************************************************)
EXTENDS Integers, Sequences, FiniteSets, TLC

VARIABLES
    state,      \* job store: job name -> current state
    joblog,     \* job store: job name -> sequence of log entries
    attrs,      \* job store: job name -> attributes set by the stages
    archive,    \* per job: what the uploader left in the job directory
    code,       \* file system: directory -> its CODE_DIR subdirectory
    cwd,        \* the process-wide current working directory
    pc,         \* per worker thread: position in run()/work()
    ip,         \* per worker thread: index of the next step of the stage body
    job,        \* per worker thread: the job returned by db.acquire
    old_dir,    \* per worker thread: directory saved by chdir() on entry
    exc         \* per worker thread: exception in flight out of the with body

vars == <<state, joblog, attrs, archive, code, cwd, pc, ip, job, old_dir, exc>>

(***************************************************************************)
(* Bounds.                                                                 *)
(***************************************************************************)
MaxJobs == 2

Jobs == 1..MaxJobs

NoJob == 0

(***************************************************************************)
(* Program constants.                                                      *)
(***************************************************************************)
\* Variant with another source extension.
SEASHELL_EXT_txt == ".txt"

SEASHELL_EXT == ".sea"

\* Variant with another extension for the translated code.
C_EXT_c == ".c"

C_EXT == ".cpp"

OBJ_EXT == ".o"

\* The directory the process starts in; job directories are named by job.
RootDir == NoJob

Dirs == Jobs \cup {RootDir}

\* The pipeline order of the job states.
Pipeline ==
    << "uploaded", "unpacking", "unpacked", "seashelling", "seashelled",
       "hlsing", "hlsed", "synthing", "synthed" >>

States == {Pipeline[i] : i \in 1..Len(Pipeline)} \cup {"failed"}

\* The worker threads built by work_threads: one per stage function.
Stages == {"unpack", "seashell", "hls", "synth"}

\* Variants of the stage triples with one state name wrong.
old_state_retry(w) ==
    CASE w = "unpack" -> "uploaded"
      [] w = "seashell" -> "failed"
      [] w = "hls" -> "seashelled"
      [] w = "synth" -> "hlsed"

temp_state_done(w) ==
    CASE w = "unpack" -> "unpacked"
      [] w = "seashell" -> "seashelling"
      [] w = "hls" -> "hlsing"
      [] w = "synth" -> "synthing"

done_state_skip(w) ==
    CASE w = "unpack" -> "unpacked"
      [] w = "seashell" -> "seashelled"
      [] w = "hls" -> "synthed"
      [] w = "synth" -> "synthed"

\* Variant in which stage_hls was given stage_seashell's transient state.
temp_state_copy(w) ==
    CASE w = "unpack" -> "unpacking"
      [] w = "seashell" -> "seashelling"
      [] w = "hls" -> "seashelling"
      [] w = "synth" -> "synthing"

\* Variant in which stage_unpack commits its transient state again.
done_state_stay(w) ==
    CASE w = "unpack" -> "unpacking"
      [] w = "seashell" -> "seashelled"
      [] w = "hls" -> "hlsed"
      [] w = "synth" -> "synthed"

\* The (old_state, temp_state, done_state) arguments each stage gives work().
old_state(w) ==
    CASE w = "unpack" -> "uploaded"
      [] w = "seashell" -> "unpacked"
      [] w = "hls" -> "seashelled"
      [] w = "synth" -> "hlsed"

temp_state(w) ==
    CASE w = "unpack" -> "unpacking"
      [] w = "seashell" -> "seashelling"
      [] w = "hls" -> "hlsing"
      [] w = "synth" -> "synthing"

done_state(w) ==
    CASE w = "unpack" -> "unpacked"
      [] w = "seashell" -> "seashelled"
      [] w = "hls" -> "hlsed"
      [] w = "synth" -> "synthed"

Transient == {temp_state(w) : w \in Stages}

\* Variant of stage_hls without the host compilation.
Body_two_hls(w) ==
    CASE w = "unpack" -> << "unzip", "collapse" >>
      [] w = "seashell" -> << "scan", "compile" >>
      [] w = "hls" -> << "sds_info", "sds_hw" >>
      [] w = "synth" -> << "sds_link" >>

\* Variant of stage_hls with the first two commands exchanged.
Body_swapped(w) ==
    CASE w = "unpack" -> << "unzip", "collapse" >>
      [] w = "seashell" -> << "scan", "compile" >>
      [] w = "hls" -> << "sds_hw", "sds_info", "sds_host" >>
      [] w = "synth" -> << "sds_link" >>

\* The steps of each stage body, in program order.
Body(w) ==
    CASE w = "unpack" -> << "unzip", "collapse" >>
      [] w = "seashell" -> << "scan", "compile" >>
      [] w = "hls" -> << "sds_info", "sds_hw", "sds_host" >>
      [] w = "synth" -> << "sds_link" >>

\* The steps that are an external command run through runl().
Commands == {"unzip", "compile", "sds_info", "sds_hw", "sds_host", "sds_link"}

(***************************************************************************)
(* A directory's CODE_DIR is its top-level entries together with the       *)
(* entries of its one possible subdirectory foo.                           *)
(***************************************************************************)
FooDir == "foo"

\* Variant of stage_unpack without the os.path.isdir test.
isdir_any(name) == TRUE

isdir(name) == name = FooDir

\* os.path.splitext on the file names that occur: <<root, extension>>.
splitext(name) ==
    CASE name = "x.sea" -> << "x", ".sea" >>
      [] name = "a.sea" -> << "a", ".sea" >>
      [] name = "y.txt" -> << "y", ".txt" >>
      [] name = "x.cpp" -> << "x", ".cpp" >>
      [] name = "a.cpp" -> << "a", ".cpp" >>
      [] OTHER -> << name, "" >>

ArchiveKinds == {"file", "dir", "multi", "nosea", "bad", "nodir"}

\* What unzip extracts at the top level of CODE_DIR, and below foo/.
ArchiveTop(kind) ==
    CASE kind = "file" -> { "x.sea" }
      [] kind = "dir" -> { FooDir }
      [] kind = "multi" -> { "x.sea", "y.txt" }
      [] kind = "nosea" -> { "y.txt" }
      [] OTHER -> {}

ArchiveSub(kind) ==
    CASE kind = "dir" -> { "a.sea", "b" }
      [] OTHER -> {}

NoCode == [exists |-> FALSE, top |-> {}, sub |-> {}]

Extract(c, kind) ==
    [exists |-> TRUE,
     top |-> c.top \cup ArchiveTop(kind),
     sub |-> c.sub \cup ArchiveSub(kind)]

\* The job directory holds ARCHIVE_NAME.zip (possibly corrupt) unless missing.
HasDir(j) == j \in Jobs /\ archive[j] # "nodir"

(***************************************************************************)
(* Attributes: the four keys the stages set; NoName when the key is absent *)
(* from the job.                                                           *)
(***************************************************************************)
NoName == ""

NoAttrs ==
    [seashell_main |-> NoName, func_main |-> NoName,
     c_main |-> NoName, obj_main |-> NoName]

(***************************************************************************)
(* Exceptions and the Command Runner.                                      *)
(***************************************************************************)
NoExc == [type |-> "none", msg |-> << >>]

WorkError(message) == [type |-> "WorkError", msg |-> message]

\* Any other exception; its log text is traceback.format_exc().
Defect(origin) == [type |-> "Exception", msg |-> << "Traceback", origin >>]

\* The ways subprocess.run(cmd, check=True, ...) can end.
Outcomes == {"ok", "nonzero", "notfound", "timeout", "oserror"}

\* run(): the exception that leaves it for each outcome of the process.
run(cmd, outcome) ==
    CASE outcome = "ok" -> NoExc
      [] outcome = "nonzero" -> WorkError(<< "$", cmd, "command failed" >>)
      [] outcome = "notfound" -> WorkError(<< "$", cmd, "not found" >>)
      [] outcome = "timeout" -> WorkError(<< "$", cmd, "timeout" >>)
      [] OTHER -> Defect(cmd)

\* proc_log(): the entry logged for a command that returned.
proc_log(cmd) == << "$", cmd >>

(***************************************************************************)
(* The job store.                                                          *)
(***************************************************************************)
db_acquire(j, old, new) ==
    /\ state[j] = old
    /\ state' = [state EXCEPT ![j] = new]

db_set_state(j, s) == state' = [state EXCEPT ![j] = s]

db_job_dir(j) == j

log(j, text) == joblog' = [joblog EXCEPT ![j] = Append(@, text)]

\* chdir(path): entry saves the current directory and changes to path.
chdir_enter(w, path) ==
    /\ old_dir' = [old_dir EXCEPT ![w] = cwd]
    /\ cwd' = path

\* chdir(path): exit changes back to the directory saved on entry (the saved
\* value goes out of scope with the context manager).
chdir_exit(w) ==
    /\ cwd' = old_dir[w]
    /\ old_dir' = [old_dir EXCEPT ![w] = RootDir]

TypeOK ==
    /\ state \in [Jobs -> States]
    /\ archive \in [Jobs -> ArchiveKinds]
    /\ cwd \in Dirs
    /\ pc \in [Stages -> {"run", "job_dir", "chdir", "body", "exit", "log", "commit", "dead"}]
    /\ ip \in [Stages -> 1..3]
    /\ job \in [Stages -> Jobs \cup {NoJob}]
    /\ old_dir \in [Stages -> Dirs]
    /\ \A w \in Stages : exc[w].type \in {"none", "WorkError", "Exception"}

Init ==
    /\ state = [j \in Jobs |-> "uploaded"]
    /\ joblog = [j \in Jobs |-> << >>]
    /\ attrs = [j \in Jobs |-> NoAttrs]
    /\ archive \in [Jobs -> ArchiveKinds]
    /\ code = [d \in Dirs |-> NoCode]
    /\ cwd = RootDir
    /\ pc = [w \in Stages |-> "run"]
    /\ ip = [w \in Stages |-> 1]
    /\ job = [w \in Stages |-> NoJob]
    /\ old_dir = [w \in Stages |-> RootDir]
    /\ exc = [w \in Stages |-> NoExc]

(***************************************************************************)
(* Positions of a worker thread.                                           *)
(*   run     WorkThread.run is about to call the stage function            *)
(*   job_dir work() has acquired its job and resolves its directory        *)
(*   chdir   work() enters the try block and chdir(job_dir)                *)
(*   body    inside the with body of the stage, at step ip                 *)
(*   exit    the with body has ended; chdir() is about to change back      *)
(*   log     an except clause of work() is about to log the exception      *)
(*   commit  work() is about to call db.set_state                          *)
(*   dead    an exception left run(): the thread has terminated            *)
(***************************************************************************)
Cur(w) == Body(w)[ip[w]]

AtStep(w, s) == pc[w] = "body" /\ ip[w] <= Len(Body(w)) /\ Cur(w) = s

\* The step at ip returned: go on with the next one, or leave the with body.
Continue(w) ==
    /\ exc' = exc
    /\ IF ip[w] < Len(Body(w))
       THEN /\ ip' = [ip EXCEPT ![w] = @ + 1]
            /\ pc' = pc
       ELSE /\ ip' = [ip EXCEPT ![w] = 1]
            /\ pc' = [pc EXCEPT ![w] = "exit"]

\* The step at ip raised e: the exception leaves the with body.
Raise(w, e) ==
    /\ exc' = [exc EXCEPT ![w] = e]
    /\ ip' = [ip EXCEPT ![w] = 1]
    /\ pc' = [pc EXCEPT ![w] = "exit"]

\* runl(job, cmd): run the command, log it if it returned, else raise.
runl(w, cmd, outcome) ==
    IF run(cmd, outcome) = NoExc
    THEN log(job[w], proc_log(cmd)) /\ Continue(w)
    ELSE UNCHANGED joblog /\ Raise(w, run(cmd, outcome))

\* Variant of work() without the except Exception clause's set_state.
CommitState_defect_done(w) ==
    IF exc[w].type = "WorkError" THEN "failed" ELSE done_state(w)

\* The state work() commits: done_state in the else clause, failed in the
\* two except clauses.
CommitState(w) == IF exc[w] = NoExc THEN done_state(w) ELSE "failed"

\* Variant of work() whose except clauses re-raise after set_state.
AfterCommit_reraise(w) == IF exc[w] = NoExc THEN "run" ELSE "dead"

\* Where the thread is once work() has committed: back in the loop of run().
AfterCommit(w) == "run"

(***************************************************************************)
(* WorkThread.run calls the stage function, which opens work(): db.acquire *)
(* hands out one job in old_state, moved to temp_state.                    *)
(***************************************************************************)
Acquire(w) ==
    /\ pc[w] = "run"
    /\ \E j \in Jobs :
          /\ db_acquire(j, old_state(w), temp_state(w))
          /\ job' = [job EXCEPT ![w] = j]
    /\ pc' = [pc EXCEPT ![w] = "job_dir"]
    /\ UNCHANGED <<joblog, attrs, archive, code, cwd, ip, old_dir, exc>>

\* job_dir = db.job_dir(job['name']), before the try block.
JobDir(w) ==
    /\ pc[w] = "job_dir"
    /\ pc' = [pc EXCEPT ![w] = "chdir"]
    /\ UNCHANGED <<state, joblog, attrs, archive, code, cwd, ip, job, old_dir, exc>>

\* db.job_dir raises: nothing catches it, it leaves work(), the stage
\* function and run().
JobDirRaise(w) ==
    /\ pc[w] = "job_dir"
    /\ pc' = [pc EXCEPT ![w] = "dead"]
    /\ UNCHANGED <<state, joblog, attrs, archive, code, cwd, ip, job, old_dir, exc>>

\* with chdir(job_dir): inside the try block; os.chdir raises when the
\* directory is missing.
ChdirEnter(w) ==
    /\ pc[w] = "chdir"
    /\ IF HasDir(db_job_dir(job[w]))
       THEN /\ chdir_enter(w, db_job_dir(job[w]))
            /\ pc' = [pc EXCEPT ![w] = "body"]
            /\ exc' = exc
       ELSE /\ exc' = [exc EXCEPT ![w] = Defect("chdir")]
            /\ pc' = [pc EXCEPT ![w] = "log"]
            /\ UNCHANGED <<cwd, old_dir>>
    /\ UNCHANGED <<state, joblog, attrs, archive, code, ip, job>>

(***************************************************************************)
(* stage_unpack                                                            *)
(***************************************************************************)
\* runl(job, ["unzip", "-d", CODE_DIR, ARCHIVE_NAME.zip]): both paths are
\* relative to the current directory.
Unzip(w) ==
    /\ AtStep(w, "unzip")
    /\ \E outcome \in Outcomes :
          /\ (cwd = RootDir \/ archive[cwd] = "bad") => outcome = "nonzero"
          /\ runl(w, "unzip", outcome)
          /\ code' = IF outcome = "ok"
                     THEN [code EXCEPT ![cwd] = Extract(@, archive[cwd])]
                     ELSE code
    /\ UNCHANGED <<state, attrs, archive, cwd, job, old_dir>>

\* The entries of CODE_DIR after the single-directory collapse.
Collapsed(c) == [c EXCEPT !.top = c.top \cup c.sub, !.sub = {}]

\* os.listdir(CODE_DIR) in the current directory; one entry that is a
\* directory: rename its entries into CODE_DIR and log the collapse.
Collapse(w) ==
    /\ AtStep(w, "collapse")
    /\ IF ~code[cwd].exists
       THEN /\ Raise(w, Defect("listdir"))
            /\ UNCHANGED <<joblog, code>>
       ELSE IF Cardinality(code[cwd].top) = 1
               /\ \A n \in code[cwd].top : isdir(n)
            THEN /\ code' = [code EXCEPT ![cwd] = Collapsed(@)]
                 /\ log(job[w], << "collapsed directory", "foo" >>)
                 /\ Continue(w)
            ELSE /\ Continue(w)
                 /\ UNCHANGED <<joblog, code>>
    /\ UNCHANGED <<state, attrs, archive, cwd, job, old_dir>>

(***************************************************************************)
(* stage_seashell                                                          *)
(***************************************************************************)
\* code_dir = os.path.join(db.job_dir(job['name']), CODE_DIR).
code_dir(w) == code[db_job_dir(job[w])]

\* Variant that records the source name only after the compiler has run.
ScanAttrs_late(a, name) == a

\* job['seashell_main'] = name, right after the search.
ScanAttrs(a, name) == [a EXCEPT !.seashell_main = name]

\* Look for the source: the first listed name with SEASHELL_EXT.
Scan(w) ==
    /\ AtStep(w, "scan")
    /\ IF ~code_dir(w).exists
       THEN /\ Raise(w, Defect("listdir"))
            /\ attrs' = attrs
       ELSE IF \A n \in code_dir(w).top : splitext(n)[2] # SEASHELL_EXT
            THEN /\ Raise(w, WorkError(<< "no source file found" >>))
                 /\ attrs' = attrs
            ELSE \E name \in code_dir(w).top :
                    /\ splitext(name)[2] = SEASHELL_EXT
                    /\ attrs' = [attrs EXCEPT ![job[w]] = ScanAttrs(@, name)]
                    /\ Continue(w)
    /\ UNCHANGED <<state, joblog, archive, code, cwd, job, old_dir>>

\* runl(job, [compiler], log_stdout=False, input=code), then the derived
\* names and the C file.
Compile(w) ==
    /\ AtStep(w, "compile")
    /\ \E outcome \in Outcomes :
          /\ runl(w, "compile", outcome)
          /\ IF outcome = "ok"
             THEN LET source_name == attrs[job[w]].seashell_main
                      base == splitext(source_name)[1]
                      c_name == base \o C_EXT
                      obj_name == base \o OBJ_EXT
                  IN /\ attrs' = [attrs EXCEPT ![job[w]].func_main = base,
                                               ![job[w]].c_main = c_name,
                                               ![job[w]].obj_main = obj_name]
                     /\ code' = [code EXCEPT ![db_job_dir(job[w])].top =
                                                 @ \cup {c_name}]
             ELSE UNCHANGED <<attrs, code>>
    /\ UNCHANGED <<state, archive, cwd, job, old_dir>>

(***************************************************************************)
(* stage_hls and stage_synth                                               *)
(***************************************************************************)
\* The steps that first read func_main, c_main and obj_main from the job.
ReadsAttrs(s) == s \in {"sds_hw", "sds_link"}

\* runl(job, prefix + ['sds++', ...], cwd=CODE_DIR): CODE_DIR is relative
\* to the current directory; a missing cwd is a FileNotFoundError.
Toolchain(w) ==
    /\ pc[w] = "body"
    /\ Cur(w) \in {"sds_info", "sds_hw", "sds_host", "sds_link"}
    /\ IF ReadsAttrs(Cur(w)) /\ attrs[job[w]].func_main = NoName
       THEN /\ Raise(w, Defect("KeyError"))
            /\ UNCHANGED joblog
       ELSE \E outcome \in Outcomes :
               /\ ~code[cwd].exists => outcome = "notfound"
               /\ runl(w, Cur(w), outcome)
    /\ UNCHANGED <<state, attrs, archive, code, cwd, job, old_dir>>

(***************************************************************************)
(* Leaving the lease.                                                      *)
(***************************************************************************)
\* Variant of work() whose except clauses do not log.
AfterExit_nolog(w) == "commit"

\* The clause of work() that runs once the with statement is left: an
\* except clause, which logs first, or the else clause.
AfterExit(w) == IF exc[w] = NoExc THEN "commit" ELSE "log"

\* The with body ended, normally or not: chdir() changes back; then the
\* except / else clauses of work().
ChdirExit(w) ==
    /\ pc[w] = "exit"
    /\ chdir_exit(w)
    /\ pc' = [pc EXCEPT ![w] = AfterExit(w)]
    /\ UNCHANGED <<state, joblog, attrs, archive, code, ip, job, exc>>

\* except WorkError: log(job, exc.message)
\* except Exception: log(job, traceback.format_exc())
LogExc(w) ==
    /\ pc[w] = "log"
    /\ log(job[w], exc[w].msg)
    /\ pc' = [pc EXCEPT ![w] = "commit"]
    /\ UNCHANGED <<state, attrs, archive, code, cwd, ip, job, old_dir, exc>>

\* db.set_state(job, 'failed') / db.set_state(job, done_state); the stage
\* function returns to run().
Commit(w) ==
    /\ pc[w] = "commit"
    /\ db_set_state(job[w], CommitState(w))
    /\ pc' = [pc EXCEPT ![w] = AfterCommit(w)]
    /\ job' = [job EXCEPT ![w] = NoJob]
    /\ exc' = [exc EXCEPT ![w] = NoExc]
    /\ UNCHANGED <<joblog, attrs, archive, code, cwd, ip, old_dir>>

WorkerStep(w) ==
    \/ Acquire(w)
    \/ JobDir(w)
    \/ ChdirEnter(w)
    \/ Unzip(w)
    \/ Collapse(w)
    \/ Scan(w)
    \/ Compile(w)
    \/ Toolchain(w)
    \/ ChdirExit(w)
    \/ LogExc(w)
    \/ Commit(w)

Next == \E w \in Stages : WorkerStep(w)

Spec == Init /\ [][Next]_vars

\* Each thread that can take a step eventually takes one.
FairSpec == Spec /\ \A w \in Stages : WF_vars(WorkerStep(w))

\* The same program with a job store whose job_dir can raise.
FaultNext == \E w \in Stages : WorkerStep(w) \/ JobDirRaise(w)

FaultSpec == Init /\ [][FaultNext]_vars

(***************************************************************************)
(* Properties.                                                             *)
(***************************************************************************)
Holds(w) == job[w] # NoJob

Last(q) == q[Len(q)]

\* An entry logged for a command that returned.
IsCmdEntry(e) == Len(e) = 2 /\ e[1] = "$"

\* An entry logged because a command did not exit 0.
IsCmdFailure(e) ==
    \/ Len(e) = 3 /\ e[1] = "$"
    \/ Len(e) = 2 /\ e[1] = "Traceback" /\ e[2] \in Commands

\* C1: every job is in exactly one state of the enumeration, a worker
\* between db.acquire and its final db.set_state holds its job in its own
\* transient state, and no two workers hold the same job.
C1_ExclusiveLease ==
    /\ state \in [Jobs -> States]
    /\ \A w \in Stages : Holds(w) => state[job[w]] = temp_state(w)
    /\ \A w1, w2 \in Stages : (w1 # w2 /\ Holds(w1)) => job[w1] # job[w2]

C1_Witness ==
    \E w1, w2 \in Stages :
        /\ w1 # w2
        /\ pc[w1] = "body" /\ pc[w2] = "body"
        /\ job[w1] # job[w2]

\* C2: every change of a job's state is to the next state of the pipeline
\* order or to failed; a job in failed or synthed changes no more.
C2_ForwardWalk ==
    [][\A j \in Jobs :
          state'[j] # state[j] =>
             \/ state[j] # "failed" /\ state'[j] = "failed"
             \/ \E i \in 1..(Len(Pipeline) - 1) :
                   state[j] = Pipeline[i] /\ state'[j] = Pipeline[i + 1]]_vars

C2_Witness ==
    \E j1, j2 \in Jobs : state[j1] = "synthed" /\ state[j2] = "failed"

\* C3: every job in a transient state is held by a worker whose lease is
\* still going to commit it: no job is in a transient state with the thread
\* that acquired it terminated.
C3_TransientResolves ==
    \A j \in Jobs :
        state[j] \in Transient =>
            \E w \in Stages : job[w] = j /\ pc[w] # "dead"

\* C4: the one change of state a lease makes to its job is done_state when
\* the body raised nothing, failed when it raised; when it raised, the last
\* entry of the job's log is the WorkError's message, or the traceback of
\* any other exception; the thread is back in run() afterwards.
C4_LeaseCommit ==
    [][\A w \in Stages :
          (Holds(w) /\ state'[job[w]] # state[job[w]]) =>
             /\ pc[w] = "commit" /\ pc'[w] = "run" /\ ~Holds(w)'
             /\ exc[w].type = "none" => state'[job[w]] = done_state(w)
             /\ exc[w].type = "WorkError" =>
                   /\ state'[job[w]] = "failed"
                   /\ Last(joblog[job[w]]) = exc[w].msg
                   /\ exc[w].msg[1] # "Traceback"
             /\ exc[w].type = "Exception" =>
                   /\ state'[job[w]] = "failed"
                   /\ Last(joblog[job[w]]) = exc[w].msg
                   /\ exc[w].msg[1] = "Traceback"]_vars

C4_Witness ==
    \E j1, j2 \in Jobs :
        /\ state[j1] = "failed" /\ Last(joblog[j1])[1] = "Traceback"
        /\ state[j2] = "failed" /\ Last(joblog[j2]) = << "no source file found" >>

\* The steps of the stage bodies that use a path relative to the current
\* directory.
RelativeSteps == {"unzip", "collapse", "sds_info", "sds_hw", "sds_host", "sds_link"}

\* C5: a stage body runs its relative-path operations with the current
\* directory being the directory of the job it holds.
C5_CwdIsJobDir ==
    \A w \in Stages :
        (pc[w] = "body" /\ Cur(w) \in RelativeSteps) => cwd = db_job_dir(job[w])

\* C6: whenever no lease is active the current directory is the directory
\* the process started in.
C6_CwdRestored ==
    (\A w \in Stages : ~Holds(w)) => cwd = RootDir

RanOnce(j) ==
    \A i1, i2 \in 1..Len(joblog[j]) :
        (i1 # i2 /\ Len(joblog[j][i1]) >= 2 /\ Len(joblog[j][i2]) >= 2
            /\ joblog[j][i1][1] \in {"$", "Traceback"}
            /\ joblog[j][i2][1] \in {"$", "Traceback"})
           => joblog[j][i1][2] # joblog[j][i2][2]

\* C8: a job in failed or in synthed never changes state and is never
\* acquired again; no command runs twice for a job.
C8_TerminalAbsorbing ==
    /\ [](\A j \in Jobs : RanOnce(j))
    /\ [][\A j \in Jobs :
            state[j] \in {"failed", "synthed"} =>
               /\ state'[j] = state[j]
               /\ \A w \in Stages : job'[w] = j => job[w] = j]_vars

C8_Witness ==
    /\ \E j1, j2 \in Jobs : state[j1] = "failed" /\ state[j2] = "synthed"
    /\ \A w \in Stages : pc[w] = "run"

\* C9: a job whose archive holds a single source file and none of whose
\* commands failed is never in failed (so it ends in synthed).
C9_ValidJobSucceeds ==
    \A j \in Jobs :
        state[j] = "failed" =>
            \/ archive[j] # "file"
            \/ \E i \in 1..Len(joblog[j]) : IsCmdFailure(joblog[j][i])

IsHlsEntry(e) == IsCmdEntry(e) /\ e[2] \in {"sds_info", "sds_hw", "sds_host"}

HlsEntries(j) == SelectSeq(joblog[j], IsHlsEntry)

\* C10 as stated: a job that passed the hls stage has two entries of that
\* stage in its log, the info probe and the object-file compilation.
C10_TwoInvocations ==
    \A j \in Jobs :
        state[j] \in {"hlsed", "synthing", "synthed"} =>
            HlsEntries(j) = << proc_log("sds_info"), proc_log("sds_hw") >>

\* C10 amended: a job that passed the hls stage has three entries of that
\* stage in its log, in this order: the info probe, the compilation of the
\* hardware function, the compilation of the host function.
C10_ThreeInvocations ==
    \A j \in Jobs :
        state[j] \in {"hlsed", "synthing", "synthed"} =>
            HlsEntries(j) =
                << proc_log("sds_info"), proc_log("sds_hw"), proc_log("sds_host") >>

C10_Witness == \E j \in Jobs : state[j] = "hlsed"

\* Worker w takes the step of this transition.
Stepped(w) == pc'[w] # pc[w] \/ ip'[w] # ip[w]

\* C11: when the collapse step of stage_unpack finds CODE_DIR with the one
\* entry foo, a directory holding a.sea and b, then afterwards CODE_DIR holds
\* a.sea and b and nothing else, foo holds nothing, and the last entry of the
\* job's log records the collapse.
C11_CollapseRemovesLevel ==
    [][\A w \in Stages :
          (/\ AtStep(w, "collapse") /\ Stepped(w)
           /\ code[cwd].exists
           /\ code[cwd].top = {"foo"}
           /\ code[cwd].sub = {"a.sea", "b"})
          => /\ code'[cwd].top = {"a.sea", "b"}
             /\ code'[cwd].sub = {}
             /\ Last(joblog'[job[w]]) = << "collapsed directory", "foo" >>]_vars

\* C12: when the collapse step of stage_unpack finds CODE_DIR with two or
\* more entries, or with one entry that is not a directory, it changes no
\* directory, logs nothing and raises nothing.
C12_NoCollapse ==
    [][\A w \in Stages :
          (/\ AtStep(w, "collapse") /\ Stepped(w)
           /\ code[cwd].exists
           /\ \/ Cardinality(code[cwd].top) >= 2
              \/ Cardinality(code[cwd].top) = 1 /\ "foo" \notin code[cwd].top)
          => /\ code' = code
             /\ joblog' = joblog
             /\ exc'[w] = NoExc]_vars

C12_Witness ==
    \E j1, j2 \in Jobs :
        /\ archive[j1] = "multi" /\ state[j1] = "unpacked"
        /\ code[j1].top = {"x.sea", "y.txt"}
        /\ joblog[j1] = << proc_log("unzip") >>
        /\ archive[j2] = "file" /\ state[j2] = "unpacked"
        /\ code[j2].top = {"x.sea"}
        /\ joblog[j2] = << proc_log("unzip") >>

NoSource == << "no source file found" >>

HasEntry(j, e) == \E i \in 1..Len(joblog[j]) : joblog[j][i] = e

\* C13: when the search of stage_seashell finds no name ending in .sea in
\* the job's code directory, it raises WorkError('no source file found') and
\* sets no attribute; a job whose log holds that message has it as its last
\* entry, has no attribute and no entry of the translator, and is failed as
\* soon as its lease has ended.
C13_NoSourceFails ==
    /\ [](\A j \in Jobs :
             HasEntry(j, NoSource) =>
                /\ Last(joblog[j]) = NoSource
                /\ attrs[j] = NoAttrs
                /\ \A i \in 1..Len(joblog[j]) :
                      Len(joblog[j][i]) >= 2 => joblog[j][i][2] # "compile"
                /\ \/ state[j] = "failed"
                   \/ /\ state[j] = "seashelling"
                      /\ job["seashell"] = j
                      /\ pc["seashell"] = "commit")
    /\ [][\A w \in Stages :
            (/\ AtStep(w, "scan") /\ Stepped(w)
             /\ code_dir(w).exists
             /\ \A n \in code_dir(w).top : splitext(n)[2] # ".sea")
            => /\ exc'[w] = WorkError(NoSource)
               /\ pc'[w] = "exit"
               /\ attrs' = attrs
               /\ joblog' = joblog]_vars

C13_Witness ==
    \E j \in Jobs :
        /\ archive[j] = "nosea"
        /\ state[j] = "failed"
        /\ joblog[j] = << proc_log("unzip"), NoSource >>

\* C14: the only exception that leaves run() is WorkError: no exception of
\* another type is in flight out of a command.
C14_OnlyWorkErrorLeavesRun ==
    \A w \in Stages :
        exc[w].type = "Exception" => exc[w].msg[2] \notin Commands

Terminal == {"synthed", "failed"}

CmdOrder == << "unzip", "compile", "sds_info", "sds_hw", "sds_host", "sds_link" >>

\* An entry of a command: logged by proc_log, or the failure of one.
IsCmdRecord(e) ==
    Len(e) >= 2 /\ e[1] \in {"$", "Traceback"} /\ e[2] \in Commands

\* An entry logged by an except clause of work().
IsFailure(e) == e = NoSource \/ e[1] = "Traceback" \/ (Len(e) = 3 /\ e[1] = "$")

\* The commands that have an entry in the job's log, in log order.
CmdNames(j) ==
    LET sel == SelectSeq(joblog[j], IsCmdRecord)
    IN [i \in 1..Len(sel) |-> sel[i][2]]

\* C16: the commands with an entry in a job's log are, in log order, the
\* first commands of the pipeline, each once; an entry of a failure is the
\* last entry of its log; inside a stage body the commands before the current
\* step have their entry and the others have none; each step changes a log
\* by appending at most one entry.
C16_LogInOrder ==
    /\ [](\A j \in Jobs :
             /\ CmdNames(j) = SubSeq(CmdOrder, 1, Len(CmdNames(j)))
             /\ \A i \in 1..(Len(joblog[j]) - 1) : ~IsFailure(joblog[j][i]))
    /\ [](\A w \in Stages :
             pc[w] = "body" =>
                \A i \in 1..Len(Body(w)) :
                   Body(w)[i] \in Commands =>
                      (HasEntry(job[w], proc_log(Body(w)[i])) <=> i < ip[w]))
    /\ [][\A j \in Jobs :
            \/ joblog'[j] = joblog[j]
            \/ /\ Len(joblog'[j]) = Len(joblog[j]) + 1
               /\ SubSeq(joblog'[j], 1, Len(joblog[j])) = joblog[j]]_vars

C16_Witness ==
    \E j \in Jobs :
        /\ state[j] = "failed"
        /\ joblog[j] = << proc_log("unzip"), proc_log("compile"),
                          proc_log("sds_info"), proc_log("sds_hw"),
                          << "$", "sds_host", "command failed" >> >>

\* C17: a job in seashelled or a later state of the pipeline has the four
\* attributes, with seashell_main = func_main + ".sea", c_main = func_main +
\* ".cpp" and obj_main = func_main + ".o"; no log holds the traceback of a
\* missing attribute.
C17_DerivedNames ==
    \A j \in Jobs :
        /\ state[j] \in {"seashelled", "hlsing", "hlsed", "synthing", "synthed"} =>
              /\ attrs[j].func_main # NoName
              /\ attrs[j].seashell_main = attrs[j].func_main \o ".sea"
              /\ attrs[j].c_main = attrs[j].func_main \o ".cpp"
              /\ attrs[j].obj_main = attrs[j].func_main \o ".o"
        /\ ~HasEntry(j, << "Traceback", "KeyError" >>)

C17_Witness ==
    \E j \in Jobs :
        /\ state[j] = "synthed"
        /\ attrs[j] = [seashell_main |-> "a.sea", func_main |-> "a",
                       c_main |-> "a.cpp", obj_main |-> "a.o"]

\* C18: from the moment an exception leaves a stage body until the job is
\* failed, the job's attributes do not change and its log changes only by
\* the appended failure entry; the step that raises changes neither; a job
\* whose translator exited non-zero still has its seashell_main.
C18_FailureKeepsRecord ==
    /\ [](\A j \in Jobs :
             HasEntry(j, << "$", "compile", "command failed" >>) =>
                attrs[j].seashell_main \in {"x.sea", "a.sea"})
    /\ [][\A w \in Stages :
            /\ (Holds(w) /\ exc[w] # NoExc) =>
                  /\ attrs'[job[w]] = attrs[job[w]]
                  /\ \/ joblog'[job[w]] = joblog[job[w]]
                     \/ /\ pc[w] = "log"
                        /\ joblog'[job[w]] = Append(joblog[job[w]], exc[w].msg)
            /\ (Holds(w) /\ exc[w] = NoExc /\ exc'[w] # NoExc) =>
                  /\ attrs' = attrs
                  /\ joblog' = joblog]_vars

C18_Witness ==
    \E j \in Jobs :
        /\ state[j] = "failed"
        /\ joblog[j] = << proc_log("unzip"), << "$", "compile", "command failed" >> >>
        /\ attrs[j] = [NoAttrs EXCEPT !.seashell_main = "x.sea"]

\* C19: at most one job is in each transient state.
C19_OneJobPerStage ==
    \A t \in Transient : Cardinality({j \in Jobs : state[j] = t}) <= 1

C19_Witness ==
    \E j1, j2 \in Jobs :
        /\ state[j1] = "unpacking"
        /\ state[j2] = "hlsing"
        /\ \E j3 \in Jobs : state[j3] = "uploaded" \/ MaxJobs = 2

PipePos(st) == CHOOSE i \in 1..Len(Pipeline) : Pipeline[i] = st

\* The job is in the state at position n of the pipeline or in a later one.
Passed(j, n) == state[j] # "failed" /\ PipePos(state[j]) >= n

\* C20: a job in failed has a failure entry as the last entry of its log; a
\* job in the done state of a stage, or beyond, has the entries of all the
\* commands of that stage and the attributes the stage sets.
C20_WritesBeforeCommit ==
    \A j \in Jobs :
        /\ state[j] = "failed" =>
              Len(joblog[j]) > 0 /\ IsFailure(Last(joblog[j]))
        /\ Passed(j, 3) => HasEntry(j, proc_log("unzip"))
        /\ Passed(j, 5) =>
              /\ HasEntry(j, proc_log("compile"))
              /\ attrs[j].seashell_main # NoName
              /\ attrs[j].func_main # NoName
              /\ attrs[j].c_main # NoName
              /\ attrs[j].obj_main # NoName
        /\ Passed(j, 7) =>
              /\ HasEntry(j, proc_log("sds_info"))
              /\ HasEntry(j, proc_log("sds_hw"))
              /\ HasEntry(j, proc_log("sds_host"))
        /\ Passed(j, 9) => HasEntry(j, proc_log("sds_link"))

C20_Witness ==
    \E j1, j2 \in Jobs :
        /\ state[j1] = "failed"
        /\ Last(joblog[j1]) = << "$", "sds_info", "timeout" >>
        /\ state[j2] = "seashelled"
        /\ HasEntry(j2, proc_log("compile"))

====
